---- MODULE Spec2Model ----
(***************************************************************************)
(* Model of lightwood's post-training analysis:                            *)
(*   - model_analyzer (src/lightwood/analysis/model_analyzer.py), stepped  *)
(*     statement block by statement block; a Python exception ends the run *)
(*     in pc = "raised" with the exception's name in `error`;              *)
(*   - generate_target_group_normalizers / get_group_matches               *)
(*     (src/lightwood/encoder/time_series/helpers/common.py).              *)
(* Data frames are sequences of rows; a row holds the values of the        *)
(* group-by columns "a" and "b"; row indices are 1..Len.                    *)
(***************************************************************************)
EXTENDS Integers, Sequences, FiniteSets, TLC

\* ------------------------------------------------------------------ bounds
MaxRows == 2
MaxTrain == 2
MaxData == 3
MaxNegAccuracy == 10
AccDenominator == 10
MaxCategories == 2
MaxPrepare == 3
MaxFrameRows == 2
MaxValue == 1
MaxCal == 2
MaxCalls == 2
SigSteps == 4
ProbSteps == 2
MaxInstances == 2
MaxDepth == 2
MaxUnderflow == 2
MaxModels == 3
MaxEpochs == 6
MaxStopAfter == 1
MaxError == 2

\* ------------------------------------------------------ program constants
ImportanceScale == 10

\* ------------------------------------------------------- value universes
Vals == {"x", "y"}
Target == "y_target"
DataColumns == <<"a", "b", "t", Target>>
GroupByChoices == {<< >>, <<"a">>, <<"a", "b">>}
NrPredictionsChoices == {1, 2}
Dtypes == {"integer", "float", "array", "categorical", "tags"}

Row == [a : Vals, b : Vals]
SeqsUpTo(S, n) == UNION {[1..k -> S] : k \in 0..n}
Tuples(k) == [1..k -> Vals]
Range(s) == {s[i] : i \in DOMAIN s}
NoDup(s) == \A i, j \in DOMAIN s : i # j => s[i] # s[j]
Perms(S) == {s \in [1..Cardinality(S) -> S] : Range(s) = S}

\* The '__default' key of analysis['icp'] / analysis['train_std_dev'] /
\* normalizers.  Keys are sets of strings: a group key is the frozenset of
\* the combination's values.
DefaultKey == {"__default"}
EmptyMap == [k \in {} |-> 0]

VARIABLES
    pc, error,
    data_type, ts_cfg, disable_column_importance, val_rows, train_group_info,
    predictor_calls, icp_class, icps, mdb_groups, mdb_group_keys, gi,
    train_std_dev, result_df, conf_queries, mdb_active, full_predictions,
    ignorable_input_columns, ci,
    gpc, original_type, group_keys, group_info, all_group_combinations, gci,
    normalizers, group_combinations, last_match,
    ipc, normal_accuracy, empty_input_accuracy, column_importance,
    cpc, encoder_class, prepare_x, categories_, encode_y, encoded,
    fpc, heap, icp_df, icps_df, icp_train_df, frame_groups, frame_classification,
    icp, calibrate_calls, last_calibration, last_op, query, answer,
    tpc, ts_obj, timeseries_settings, ts_err,
    autocast_enabled, nesting, entry_enabled, tensor_cores, instances, with_stack,
    bpc, model_scores, best_score, best_index, idx, returned,
    mpc, stop_after, return_model_after, epoch, elapsed, train_error,
    running_errors, best_dev_error, epochs_to_best

avars == <<pc, error, data_type, ts_cfg, disable_column_importance, val_rows,
           train_group_info, predictor_calls, icp_class, icps, mdb_groups,
           mdb_group_keys, gi, train_std_dev, result_df, conf_queries,
           mdb_active, full_predictions, ignorable_input_columns, ci>>
gvars == <<gpc, original_type, group_keys, group_info, all_group_combinations,
           gci, normalizers, group_combinations, last_match>>
ivars == <<ipc, normal_accuracy, empty_input_accuracy, column_importance>>
cvars == <<cpc, encoder_class, prepare_x, categories_, encode_y, encoded>>
fvars == <<fpc, heap, icp_df, icps_df, icp_train_df, frame_groups,
          frame_classification>>
pvars == <<icp, calibrate_calls, last_calibration, last_op, query, answer>>
tvars == <<tpc, ts_obj, timeseries_settings, ts_err>>
uvars == <<autocast_enabled, nesting, entry_enabled, tensor_cores, instances,
          with_stack>>
bvars == <<bpc, model_scores, best_score, best_index, idx, returned>>
mvars == <<mpc, stop_after, return_model_after, epoch, elapsed, train_error,
          running_errors, best_dev_error, epochs_to_best>>
xvars == <<ivars, cvars, fvars, pvars, tvars, uvars, bvars, mvars>>
vars == <<avars, gvars, xvars>>

\* =====================================================================
\*                          model_analyzer
\* =====================================================================

TsConfigs ==
    {[is_timeseries |-> FALSE, group_by |-> << >>, nr_predictions |-> 0,
      order_by |-> << >>, historical_columns |-> << >>]}
    \cup
    {[is_timeseries |-> TRUE, group_by |-> g, nr_predictions |-> n,
      order_by |-> <<"t">>, historical_columns |-> << >>]
        : g \in GroupByChoices, n \in NrPredictionsChoices}

\* line 67
is_numerical == data_type \in {"integer", "float"} \/ data_type \in {"array"}
\* line 70
is_classification == data_type \in {"categorical"} \/ data_type \in {"array"}
\* line 73
is_multi_ts == ts_cfg.is_timeseries /\ ts_cfg.nr_predictions > 1
\* line 65: data_subtype = data_type
data_subtype == data_type
\* lines 82-100: the ICP class chosen with the adapter / nc function / nc class
SelectedIcpClass == IF is_classification THEN "IcpClassifier" ELSE "IcpRegressor"
\* line 102
EntersIcpBlock == is_numerical \/ (is_classification /\ data_subtype # "tags")
\* lines 138 and 167
Grouped == ts_cfg.is_timeseries /\ ts_cfg.group_by # << >>

\* frozenset(combination)
FrozenKey(combination) == {combination[i] : i \in DOMAIN combination}

\* set(x) for one column of group_info: the distinct values of column c
DistinctValues(info, c) == {info[i][c] : i \in DOMAIN info}

\* The iteration orders the sets of line 142 can have, one per column
ColumnOrders(info, ncols) ==
    {os \in [1..ncols -> UNION {Perms(S) : S \in SUBSET Vals}] :
        \A c \in 1..ncols : os[c] \in Perms(DistinctValues(info, c))}

\* itertools.product over the sequences os[1], os[2], ...: the rightmost
\* element advances first; product() of no sequence is the one empty tuple
RECURSIVE product(_)
product(os) ==
    IF os = << >> THEN << << >> >>
    ELSE LET rest == product(Tail(os))
             n == Len(rest)
             m == Len(Head(os))
         IN  [i \in 1..(m * n) |->
                <<Head(os)[((i - 1) \div n) + 1]>> \o rest[((i - 1) % n) + 1]]

\* zip(*...) in place of product(*...): only the position-wise tuples
AllGroupCombinations_zip(os) ==
    IF os = << >> THEN << << >> >>
    ELSE LET n == CHOOSE k \in 0..Cardinality(Vals) :
                    /\ \A c \in DOMAIN os : k <= Len(os[c])
                    /\ \E c \in DOMAIN os : k = Len(os[c])
         IN  [i \in 1..n |-> [c \in DOMAIN os |-> os[c][i]]]

\* line 142: list(product(*[set(x) for x in group_info.values()]))
AllGroupCombinations(os) == product(os)

\* lines 184-185 and 200-201: for key, val in zip(group_keys, group):
\*     icp_df = icp_df[icp_df[key] == val]
FilterRows(rows, keys, group) ==
    {i \in DOMAIN rows :
        \A c \in (DOMAIN keys) \cap (DOMAIN group) : rows[i][keys[c]] = group[c]}

AllRows == DOMAIN val_rows

\* ---- ICP objects (lightwood.analysis.nc.icp, modelled from the spec, 4.4)
IcpNew(cls, cache, obj) ==
    [class |-> cls, state |-> "UNCALIBRATED", cal |-> {},
     prediction_cache |-> cache, obj |-> obj]
\* a fit that marks the ICP calibrated
IcpFit_calibrates(p) == [p EXCEPT !.state = "CALIBRATED"]
IcpFit(p) == p
IcpCalibrate(p, rows) == [p EXCEPT !.state = "CALIBRATED", !.cal = rows]

\* lines 116-131: which predictions fill the prediction cache
PredictionCacheKind ==
    IF is_classification THEN "one_hot_predictions"
    ELSE IF is_multi_ts THEN "first_step"
    ELSE "predictions"

NoResult == [defined |-> FALSE, rows |-> << >>]
NoPredictions == [defined |-> FALSE, index |-> {}, columns |-> {}]

AInit ==
    /\ pc = "L52"
    /\ error = "none"
    /\ data_type \in Dtypes
    /\ ts_cfg \in TsConfigs
    /\ disable_column_importance \in BOOLEAN
    /\ val_rows \in SeqsUpTo(Row, MaxRows) \ {<< >>}
    /\ train_group_info \in SeqsUpTo(Tuples(Len(ts_cfg.group_by)), MaxTrain)
    /\ predictor_calls = << >>
    /\ icp_class = "unset"
    /\ icps = EmptyMap
    /\ mdb_groups = << >>
    /\ mdb_group_keys = << >>
    /\ gi = 0
    /\ train_std_dev = [defined |-> FALSE, entries |-> EmptyMap]
    /\ result_df = NoResult
    /\ conf_queries = << >>
    /\ mdb_active = FALSE
    /\ full_predictions = NoPredictions
    /\ ignorable_input_columns = << >>
    /\ ci = 0

AIdle ==
    /\ pc = "idle"
    /\ error = "none"
    /\ data_type = "integer"
    /\ ts_cfg = [is_timeseries |-> FALSE, group_by |-> << >>, nr_predictions |-> 0,
                 order_by |-> << >>, historical_columns |-> << >>]
    /\ disable_column_importance = TRUE
    /\ val_rows = << >>
    /\ train_group_info = << >>
    /\ predictor_calls = << >>
    /\ icp_class = "unset"
    /\ icps = EmptyMap
    /\ mdb_groups = << >>
    /\ mdb_group_keys = << >>
    /\ gi = 0
    /\ train_std_dev = [defined |-> FALSE, entries |-> EmptyMap]
    /\ result_df = NoResult
    /\ conf_queries = << >>
    /\ mdb_active = FALSE
    /\ full_predictions = NoPredictions
    /\ ignorable_input_columns = << >>
    /\ ci = 0

GIdle ==
    /\ gpc = "idle"
    /\ original_type = "none"
    /\ group_keys = << >>
    /\ group_info = << >>
    /\ all_group_combinations = << >>
    /\ gci = 0
    /\ normalizers = EmptyMap
    /\ group_combinations = << >>
    /\ last_match = [called |-> FALSE, combination |-> << >>, idxs |-> {}]

\* column importance (lines 253-259) not running
IIdle ==
    /\ ipc = "idle"
    /\ normal_accuracy = 0
    /\ empty_input_accuracy = 0
    /\ column_importance = 0

\* no CatNormalizer in use
CIdle ==
    /\ cpc = "idle"
    /\ encoder_class = "one_hot"
    /\ prepare_x = << >>
    /\ categories_ = {}
    /\ encode_y = 0
    /\ encoded = << >>

\* no data frames allocated
FIdle ==
    /\ fpc = "idle"
    /\ heap = << >>
    /\ icp_df = 0
    /\ icps_df = 0
    /\ icp_train_df = 0
    /\ frame_groups = << >>
    /\ frame_classification = FALSE

\* no stand-alone ICP
PIdle ==
    /\ icp = [class |-> "unset"]
    /\ calibrate_calls = 0
    /\ last_calibration = << >>
    /\ last_op = "idle"
    /\ query = [kind |-> "none"]
    /\ answer = [kind |-> "none"]

\* TimeseriesSettings.from_dict not called
TIdle ==
    /\ tpc = "idle"
    /\ ts_obj = EmptyMap
    /\ timeseries_settings = [is_timeseries |-> FALSE]
    /\ ts_err = "none"

\* no LightwoodAutocast in use
UIdle ==
    /\ autocast_enabled = FALSE
    /\ nesting = 0
    /\ entry_enabled = FALSE
    /\ tensor_cores = FALSE
    /\ instances = << >>
    /\ with_stack = << >>

\* no BestOf ensemble
BIdle ==
    /\ bpc = "idle"
    /\ model_scores = << >>
    /\ best_score = [nan |-> FALSE, v |-> 0]
    /\ best_index = [bound |-> FALSE, v |-> 0]
    /\ idx = 0
    /\ returned = [model |-> 0]

\* Neural._max_fit not running
MIdle ==
    /\ mpc = "idle"
    /\ stop_after = 0
    /\ return_model_after = 0
    /\ epoch = 0
    /\ elapsed = 0
    /\ train_error = [nan |-> FALSE, v |-> 0]
    /\ running_errors = << >>
    /\ best_dev_error = 0
    /\ epochs_to_best = 0

XIdle == IIdle /\ CIdle /\ FIdle /\ PIdle /\ TIdle /\ UIdle /\ BIdle /\ MIdle

Init == AInit /\ GIdle /\ XIdle

Raise(e) == pc' = "raised" /\ error' = e

\* lines 52-58: the point predictions of the whole validation set
CallPredictor ==
    /\ pc = "L52"
    /\ predictor_calls' = Append(predictor_calls, <<"encoded_data">>)
    /\ pc' = "L64"
    /\ UNCHANGED <<gvars, xvars, error, data_type, ts_cfg, disable_column_importance, val_rows,
                   train_group_info, icp_class, icps, mdb_groups, mdb_group_keys,
                   gi, train_std_dev, result_df, conf_queries, mdb_active,
                   full_predictions, ignorable_input_columns, ci>>

\* the flag of line 61 set to True
SelectMachinery_activates ==
    /\ pc = "L64"
    /\ icp_class' = SelectedIcpClass
    /\ mdb_active' = TRUE
    /\ pc' = IF EntersIcpBlock THEN "L103" ELSE "L224"
    /\ UNCHANGED <<gvars, xvars, error, data_type, ts_cfg, disable_column_importance, val_rows,
                   train_group_info, predictor_calls, icps, mdb_groups,
                   mdb_group_keys, gi, train_std_dev, result_df, conf_queries,
                   full_predictions, ignorable_input_columns, ci>>

\* lines 60-102: flags, fit_params, choice of the nonconformity machinery
SelectMachinery ==
    /\ pc = "L64"
    /\ icp_class' = SelectedIcpClass
    /\ pc' = IF EntersIcpBlock THEN "L103" ELSE "L224"
    /\ UNCHANGED <<gvars, xvars, error, data_type, ts_cfg, disable_column_importance, val_rows,
                   train_group_info, predictor_calls, icps, mdb_groups,
                   mdb_group_keys, gi, train_std_dev, result_df, conf_queries,
                   mdb_active, full_predictions, ignorable_input_columns, ci>>

\* lines 103-135: the default ICP, its prediction cache, fit(None, None), and
\* the default training standard deviation
BuildDefaultIcp ==
    /\ pc = "L103"
    /\ icps' = (DefaultKey :> IcpFit(IcpNew(icp_class, PredictionCacheKind, 0)))
    /\ train_std_dev' = IF ~is_classification
                          THEN [defined |-> TRUE,
                                entries |-> (DefaultKey :> "stats_info.train_std_dev")]
                          ELSE train_std_dev
    /\ pc' = IF Grouped THEN "L138" ELSE "L151"
    /\ UNCHANGED <<gvars, xvars, error, data_type, ts_cfg, disable_column_importance, val_rows,
                   train_group_info, predictor_calls, icp_class, mdb_groups,
                   mdb_group_keys, gi, result_df, conf_queries, mdb_active,
                   full_predictions, ignorable_input_columns, ci>>

\* lines 138-144: all_group_combinations, in the iteration order of the sets
EnumerateGroups ==
    /\ pc = "L138"
    /\ \E os \in ColumnOrders(train_group_info, Len(ts_cfg.group_by)) :
         mdb_groups' = AllGroupCombinations(os)
    /\ mdb_group_keys' = ts_cfg.group_by
    /\ pc' = "L146"
    /\ UNCHANGED <<gvars, xvars, gi, error, data_type, ts_cfg, disable_column_importance, val_rows,
                   train_group_info, predictor_calls, icp_class, icps,
                   train_std_dev, result_df, conf_queries, mdb_active,
                   full_predictions, ignorable_input_columns, ci>>

\* lines 146-149, the first n iterations: one deepcopy of the default ICP per
\* combination, stored under frozenset(combination) (a later combination with
\* the same frozenset replaces the earlier copy); the copy made for the i-th
\* combination is object i
RECURSIVE StoreGroupIcps(_, _, _)
StoreGroupIcps(map, groups, n) ==
    IF n = 0 THEN map
    ELSE (FrozenKey(groups[n]) :> IcpFit([map[DefaultKey] EXCEPT !.obj = n]))
            @@ StoreGroupIcps(map, groups, n - 1)

\* lines 146-149: the whole loop
BuildGroupIcps ==
    /\ pc = "L146"
    /\ icps' = StoreGroupIcps(icps, mdb_groups, Len(mdb_groups))
    /\ pc' = "L151"
    /\ UNCHANGED <<gvars, xvars, error, data_type, ts_cfg, disable_column_importance, val_rows,
                   train_group_info, predictor_calls, icp_class, mdb_groups,
                   mdb_group_keys, gi, train_std_dev, result_df, conf_queries,
                   mdb_active, full_predictions, ignorable_input_columns, ci>>

\* the calibrate call of line 155 left out
CalibrateDefault_skipped ==
    /\ pc = "L151"
    /\ pc' = "L157"
    /\ UNCHANGED <<gvars, xvars, error, data_type, ts_cfg, disable_column_importance, val_rows,
                   train_group_info, predictor_calls, icp_class, icps, mdb_groups,
                   mdb_group_keys, gi, train_std_dev, result_df, conf_queries,
                   mdb_active, full_predictions, ignorable_input_columns, ci>>

\* lines 151-155: calibrate the default ICP on the whole validation frame
CalibrateDefault ==
    /\ pc = "L151"
    /\ icps' = [icps EXCEPT ![DefaultKey] = IcpCalibrate(@, AllRows)]
    /\ pc' = "L157"
    /\ UNCHANGED <<gvars, xvars, error, data_type, ts_cfg, disable_column_importance, val_rows,
                   train_group_info, predictor_calls, icp_class, mdb_groups,
                   mdb_group_keys, gi, train_std_dev, result_df, conf_queries,
                   mdb_active, full_predictions, ignorable_input_columns, ci>>

\* lines 157-164: set_conf_range on the default ICP (querying an ICP that is
\* not calibrated fails, spec 4.4), then result_df with the default bounds
DefaultConfRange ==
    /\ pc = "L157"
    /\ conf_queries' = Append(conf_queries,
                              [key |-> DefaultKey, state |-> icps[DefaultKey].state])
    /\ IF icps[DefaultKey].state # "CALIBRATED"
         THEN /\ Raise("NotCalibratedError")
              /\ UNCHANGED result_df
         ELSE /\ result_df' =
                   IF ~is_classification
                     THEN [defined |-> TRUE,
                           rows |-> [i \in AllRows |->
                                       [written |-> TRUE, by |-> DefaultKey,
                                        cal |-> icps[DefaultKey].cal]]]
                     ELSE result_df
              /\ pc' = IF Grouped THEN "L166" ELSE "L214"
              /\ UNCHANGED error
    /\ UNCHANGED <<gvars, xvars, data_type, ts_cfg, disable_column_importance, val_rows,
                   train_group_info, predictor_calls, icp_class, icps, mdb_groups,
                   mdb_group_keys, gi, train_std_dev, mdb_active,
                   full_predictions, ignorable_input_columns, ci>>

\* lines 166-177: reset of analysis['train_std_dev'], copy of the cached frame
StartGroupCalibration ==
    /\ pc = "L166"
    /\ train_std_dev' = [defined |-> TRUE, entries |-> EmptyMap]
    /\ gi' = 1
    /\ pc' = "L179"
    /\ UNCHANGED <<gvars, xvars, error, data_type, ts_cfg, disable_column_importance, val_rows,
                   train_group_info, predictor_calls, icp_class, icps, mdb_groups,
                   mdb_group_keys, result_df, conf_queries, mdb_active,
                   full_predictions, ignorable_input_columns, ci>>

\* lines 179-181: loop head; the attribute read normalizer.prediction_cache
\* raises AttributeError when the nonconformity object's normalizer is None.
\* Whether the object built at line 110 without a normalizer argument holds
\* one is the default of a class that is not in src/: both outcomes are
\* allowed, decided here, where the attribute is first read.
GroupSelfawareColumn ==
    /\ pc = "L179"
    /\ IF gi > Len(mdb_groups)
         THEN pc' = "L214" /\ UNCHANGED error
         ELSE \E normalizer_is_none \in BOOLEAN :
                IF normalizer_is_none
                  THEN Raise("AttributeError")
                  ELSE pc' = "L183" /\ UNCHANGED error
    /\ UNCHANGED <<gvars, xvars, data_type, ts_cfg, disable_column_importance, val_rows,
                   train_group_info, predictor_calls, icp_class, icps, mdb_groups,
                   mdb_group_keys, gi, train_std_dev, result_df, conf_queries,
                   mdb_active, full_predictions, ignorable_input_columns, ci>>

\* lines 174-177 and 188-189: which predictions fill a group ICP's cache
GroupPredictionCacheKind ==
    IF is_multi_ts THEN "first_step" ELSE "target_column"

\* lines 183-195: filter the rows of the combination, fill the caches,
\* calibrate the ICP stored under frozenset(group) on those rows
GroupCalibrate ==
    /\ pc = "L183"
    /\ icps' = [icps EXCEPT ![FrozenKey(mdb_groups[gi])] =
                  IcpCalibrate([@ EXCEPT !.prediction_cache = GroupPredictionCacheKind],
                               FilterRows(val_rows, mdb_group_keys, mdb_groups[gi]))]
    /\ pc' = "L197"
    /\ UNCHANGED <<gvars, xvars, error, data_type, ts_cfg, disable_column_importance, val_rows,
                   train_group_info, predictor_calls, icp_class, mdb_groups,
                   mdb_group_keys, gi, train_std_dev, result_df, conf_queries,
                   mdb_active, full_predictions, ignorable_input_columns, ci>>

\* lines 197-203: the std() of the target over the rows of the combination
GroupTrainStd ==
    /\ pc = "L197"
    /\ train_std_dev' =
         IF ~is_classification
           THEN [train_std_dev EXCEPT !.entries =
                   (FrozenKey(mdb_groups[gi]) :> "y_train.std()") @@ @]
           ELSE train_std_dev
    /\ pc' = "L205"
    /\ UNCHANGED <<gvars, xvars, error, data_type, ts_cfg, disable_column_importance, val_rows,
                   train_group_info, predictor_calls, icp_class, icps, mdb_groups,
                   mdb_group_keys, gi, result_df, conf_queries, mdb_active,
                   full_predictions, ignorable_input_columns, ci>>

\* lines 205-208: the arguments of set_conf_range are evaluated first, and the
\* name `params` is bound nowhere (no local, no parameter, no module global):
\* NameError.  Lines 209-212 (the group's writes into result_df) and the next
\* iteration are therefore never executed.
GroupConfRange ==
    /\ pc = "L205"
    /\ Raise("NameError")
    /\ UNCHANGED <<gvars, xvars, data_type, ts_cfg, disable_column_importance, val_rows,
                   train_group_info, predictor_calls, icp_class, icps, mdb_groups,
                   mdb_group_keys, gi, train_std_dev, result_df, conf_queries,
                   mdb_active, full_predictions, ignorable_input_columns, ci>>

\* lines 214-221: consolidate the ranges, switch the ICPs on
Consolidate ==
    /\ pc = "L214"
    /\ mdb_active' = TRUE
    /\ pc' = "L224"
    /\ UNCHANGED <<gvars, xvars, error, data_type, ts_cfg, disable_column_importance, val_rows,
                   train_group_info, predictor_calls, icp_class, icps, mdb_groups,
                   mdb_group_keys, gi, train_std_dev, result_df, conf_queries,
                   full_predictions, ignorable_input_columns, ci>>

\* lines 223-233: pd.concat([normal_predictions, result_df.astype(float)], axis=1);
\* the name result_df is bound only by line 162 (NameError otherwise); both
\* frames carry data.index.  Then the validation accuracy.
JoinPredictions ==
    /\ pc = "L224"
    /\ IF ~result_df.defined
         THEN /\ Raise("NameError")
              /\ UNCHANGED full_predictions
         ELSE /\ full_predictions' =
                   [defined |-> TRUE,
                    index |-> AllRows \cup DOMAIN result_df.rows,
                    columns |-> {"predictions", "lower", "upper"}]
              /\ pc' = "L240"
              /\ UNCHANGED error
    /\ UNCHANGED <<gvars, xvars, data_type, ts_cfg, disable_column_importance, val_rows,
                   train_group_info, predictor_calls, icp_class, icps, mdb_groups,
                   mdb_group_keys, gi, train_std_dev, result_df, conf_queries,
                   mdb_active, ignorable_input_columns, ci>>

\* line 56
input_columns == SelectSeq(DataColumns, LAMBDA col : col # Target)

\* the ablation loop run whatever the flag
RunsColumnImportance_always == TRUE

\* line 240
RunsColumnImportance == ~disable_column_importance

\* lines 241-243
IgnorableInputColumns ==
    SelectSeq(input_columns,
              LAMBDA x : \/ ~ts_cfg.is_timeseries
                         \/ (x \notin Range(ts_cfg.order_by)
                             /\ x \notin Range(ts_cfg.historical_columns)))

\* lines 235-243
StartColumnImportance ==
    /\ pc = "L240"
    /\ IF RunsColumnImportance
         THEN /\ ignorable_input_columns' = IgnorableInputColumns
              /\ ci' = 1
              /\ pc' = "L244"
         ELSE /\ pc' = "L261"
              /\ UNCHANGED <<ignorable_input_columns, ci>>
    /\ UNCHANGED <<gvars, xvars, error, data_type, ts_cfg, disable_column_importance, val_rows,
                   train_group_info, predictor_calls, icp_class, icps, mdb_groups,
                   mdb_group_keys, gi, train_std_dev, result_df, conf_queries,
                   mdb_active, full_predictions>>

\* lines 244-259: one predictor call per ignorable column, with that column
\* ignored; then the importances
AblateColumn ==
    /\ pc = "L244"
    /\ IF ci <= Len(ignorable_input_columns)
         THEN /\ predictor_calls' =
                   Append(predictor_calls, <<"validate", ignorable_input_columns[ci]>>)
              /\ ci' = ci + 1
              /\ pc' = pc
         ELSE /\ pc' = "L261"
              /\ UNCHANGED <<predictor_calls, ci>>
    /\ UNCHANGED <<gvars, xvars, error, data_type, ts_cfg, disable_column_importance, val_rows,
                   train_group_info, icp_class, icps, mdb_groups, mdb_group_keys,
                   gi, train_std_dev, result_df, conf_queries, mdb_active,
                   full_predictions, ignorable_input_columns>>

\* lines 261-290: accuracy statistics, return analysis, full_predictions
AccuracyStats ==
    /\ pc = "L261"
    /\ pc' = "returned"
    /\ UNCHANGED <<gvars, xvars, error, data_type, ts_cfg, disable_column_importance, val_rows,
                   train_group_info, predictor_calls, icp_class, icps, mdb_groups,
                   mdb_group_keys, gi, train_std_dev, result_df, conf_queries,
                   mdb_active, full_predictions, ignorable_input_columns, ci>>

Next ==
    \/ CallPredictor
    \/ SelectMachinery
    \/ BuildDefaultIcp
    \/ EnumerateGroups
    \/ BuildGroupIcps
    \/ CalibrateDefault
    \/ DefaultConfRange
    \/ StartGroupCalibration
    \/ GroupSelfawareColumn
    \/ GroupCalibrate
    \/ GroupTrainStd
    \/ GroupConfRange
    \/ Consolidate
    \/ JoinPredictions
    \/ StartColumnImportance
    \/ AblateColumn
    \/ AccuracyStats

Spec == Init /\ [][Next]_vars

\* =====================================================================
\*        generate_target_group_normalizers / get_group_matches
\* =====================================================================

OriginalTypes == {"categorical", "binary", "integer", "float", "array"}

\* data['group_info'] is held row-wise: group_info[i][c] is the value of the
\* c-th group-by column (group_keys[c]) in row i; data['data'] has one entry
\* per row.
GInit ==
    /\ gpc = "G129"
    /\ original_type \in OriginalTypes
    /\ group_keys \in GroupByChoices
    /\ group_info \in SeqsUpTo(Tuples(Len(group_keys)), MaxData) \ {<< >>}
    /\ all_group_combinations = << >>
    /\ gci = 0
    /\ normalizers = EmptyMap
    /\ group_combinations = << >>
    /\ last_match = [called |-> FALSE, combination |-> << >>, idxs |-> {}]

GNInit == AIdle /\ GInit /\ XIdle

\* lines 103-119: get_group_matches(data, combination), `iter` being the order
\* in which iterating `combination` yields its elements; the result's indexes
IntersectAll(sets) == {i \in UNION Range(sets) : \A c \in DOMAIN sets : i \in sets[c]}
get_group_matches(info, keys, iter) ==
    IF iter = << >>
      THEN DOMAIN info
      ELSE LET all_sets ==
                 [c \in (DOMAIN iter) \cap (DOMAIN keys) |->
                    {i \in DOMAIN info : info[i][c] = iter[c]}]
           IN  IF all_sets # << >> THEN IntersectAll(all_sets) ELSE {}

Fitted(cls, rows) == [class |-> cls, fitted_on |-> rows]

\* lines 129-143: the categorical branch, or the enumeration of the groups
GStart ==
    /\ gpc = "G129"
    /\ IF original_type \in {"categorical", "binary"}
         THEN /\ normalizers' = (DefaultKey :> Fitted("CatNormalizer", DOMAIN group_info))
              /\ group_combinations' = <<DefaultKey>>
              /\ gpc' = "done"
              /\ UNCHANGED <<all_group_combinations, gci>>
         ELSE /\ \E os \in ColumnOrders(group_info, Len(group_keys)) :
                   all_group_combinations' = product(os)
              /\ gci' = 1
              /\ gpc' = "G144"
              /\ UNCHANGED <<normalizers, group_combinations>>
    /\ UNCHANGED <<avars, xvars, original_type, group_keys, group_info, last_match>>

\* lines 144-153: one combination; the frozenset made of it is what
\* get_group_matches iterates over, in an order of the set's own
GCombination ==
    /\ gpc = "G144"
    /\ gci <= Len(all_group_combinations)
    /\ LET combination == all_group_combinations[gci] IN
         IF combination # << >>
           THEN \E iter \in Perms(FrozenKey(combination)) :
                  LET idxs == get_group_matches(group_info, group_keys, iter) IN
                    /\ last_match' = [called |-> TRUE, combination |-> combination,
                                      idxs |-> idxs]
                    /\ IF idxs # {}
                         THEN /\ normalizers' =
                                   (FrozenKey(combination) :> Fitted("MinMaxNormalizer", idxs))
                                   @@ normalizers
                              /\ group_combinations' =
                                   Append(group_combinations, FrozenKey(combination))
                         ELSE UNCHANGED <<normalizers, group_combinations>>
           ELSE UNCHANGED <<last_match, normalizers, group_combinations>>
    /\ gci' = gci + 1
    /\ UNCHANGED <<avars, xvars, gpc, original_type, group_keys, group_info,
                   all_group_combinations>>

\* lines 155-163: the default normalizer, fitted with all the data
GDefault ==
    /\ gpc = "G144"
    /\ gci > Len(all_group_combinations)
    /\ normalizers' = (DefaultKey :> Fitted("MinMaxNormalizer", DOMAIN group_info))
                         @@ normalizers
    /\ group_combinations' = Append(group_combinations, DefaultKey)
    /\ gpc' = "done"
    /\ UNCHANGED <<avars, xvars, original_type, group_keys, group_info,
                   all_group_combinations, gci, last_match>>

GNext ==
    \/ GStart
    \/ GCombination
    \/ GDefault

SpecGN == GNInit /\ [][GNext]_vars

\* =====================================================================
\*            column importance (model_analyzer, lines 253-259)
\* =====================================================================

\* An accuracy value v stands for v / AccDenominator.  The accuracy of a
\* numeric target is an r2 score (line 288; r2_score is the accuracy measure
\* of neural.py line 62): at most 1, and negative for a model worse than the
\* mean predictor.
AccuracyValues == (0 - MaxNegAccuracy)..AccDenominator

Max(a, b) == IF a >= b THEN a ELSE b

\* line 258, as a numerator over AccDenominator
ColumnImportance(normal, empty) == ImportanceScale * Max(0, normal - empty)

\* line 259: assert analysis['column_importances'][col] <= 10
AssertionHolds(importance) == importance <= ImportanceScale * AccDenominator

IInit ==
    /\ ipc = "L256"
    /\ normal_accuracy \in AccuracyValues
    /\ empty_input_accuracy \in AccuracyValues
    /\ column_importance = 0

CIInit == AIdle /\ GIdle /\ IInit /\ CIdle /\ FIdle /\ PIdle /\ TIdle /\ UIdle /\ BIdle /\ MIdle

\* lines 256-259 for one column
ComputeImportance ==
    /\ ipc = "L256"
    /\ column_importance' = ColumnImportance(normal_accuracy, empty_input_accuracy)
    /\ ipc' = IF AssertionHolds(column_importance') THEN "written" ELSE "AssertionError"
    /\ UNCHANGED <<avars, gvars, mvars, bvars, uvars, tvars, pvars, fvars, cvars, normal_accuracy, empty_input_accuracy>>

CINext ==
    \/ ComputeImportance

SpecCI == CIInit /\ [][CINext]_vars

\* =====================================================================
\*                    CatNormalizer (common.py, lines 64-94)
\* =====================================================================

\* Category values are the numbers 1..MaxCategories; None and the sentinel
\* "<UNK>" (line 72) are numbers outside that range, the sentinel sorting
\* before every category as the string "<UNK>" does.
NoneValue == 0 - 1
unk == 0
CatValues == 1..MaxCategories

\* j if j is not None else self.unk (lines 78 and 83)
NoneToUnk(j) == IF j = NoneValue THEN unk ELSE j

\* lines 75-79: the categories the scaler is fitted on
FittedCategories(x) == {NoneToUnk(x[i]) : i \in DOMAIN x}

\* OneHotEncoder(sparse=False, handle_unknown='ignore').transform of one
\* value (line 68): one column per fitted category, all zeros for a value
\* that is not a fitted category
OneHotTransform(cats, v) == [c \in cats |-> IF c = v THEN 1 ELSE 0]

\* OrdinalEncoder().transform of one fitted value (line 70): its position
\* among the sorted categories
OrdinalTransform(cats, v) == Cardinality({c \in cats : c < v})

\* OrdinalEncoder() is built with the default handle_unknown='error'
\* (line 70); OneHotEncoder with handle_unknown='ignore' (line 68)
TransformRaises(cls, cats, v) == cls # "one_hot" /\ v \notin cats

CInit ==
    /\ cpc = "new"
    /\ encoder_class \in {"one_hot", "ordinal"}
    /\ prepare_x \in SeqsUpTo(CatValues \cup {NoneValue}, MaxPrepare) \ {<< >>}
    /\ categories_ = {}
    /\ encode_y = 0
    /\ encoded = << >>

CatInit == AIdle /\ GIdle /\ IIdle /\ CInit /\ FIdle /\ PIdle /\ TIdle /\ UIdle /\ BIdle /\ MIdle

\* lines 74-80: prepare
CatPrepare ==
    /\ cpc = "new"
    /\ categories_' = FittedCategories(prepare_x)
    /\ cpc' = "prepared"
    /\ UNCHANGED <<avars, gvars, mvars, bvars, uvars, tvars, pvars, fvars, ivars, encoder_class, prepare_x, encode_y, encoded>>

\* lines 82-91: encode of one value
CatEncode ==
    /\ cpc = "prepared"
    /\ \E y \in CatValues \cup {NoneValue} :
         /\ encode_y' = y
         /\ IF TransformRaises(encoder_class, categories_, NoneToUnk(y))
              THEN /\ cpc' = "ValueError"
                   /\ UNCHANGED encoded
              ELSE /\ cpc' = "encoded"
                   /\ encoded' =
                        IF encoder_class = "one_hot"
                          THEN OneHotTransform(categories_, NoneToUnk(y))
                          ELSE <<OrdinalTransform(categories_, NoneToUnk(y))>>
    /\ UNCHANGED <<avars, gvars, mvars, bvars, uvars, tvars, pvars, fvars, ivars, encoder_class, prepare_x, categories_>>

CatNext ==
    \/ CatPrepare
    \/ CatEncode

SpecCat == CatInit /\ [][CatNext]_vars

\* =====================================================================
\*     the data frames of model_analyzer as objects (lines 53, 151-208)
\* =====================================================================

\* A frame is an object on the heap: a set of column names and its rows (row
\* index |-> the row's value in the group-by column "a").  A name bound to a
\* frame holds the object's position on the heap; 0 is an unbound name.
data == 1
cached_val_df == 2
FrameColumns == {"a", "t", Target}
PredictedCol == "__predicted_y_target"
SelfawareCol == "__selfaware_y_target"

FrameRows == UNION {[1..k -> Vals] : k \in 1..MaxFrameRows}

\* `icp_df = icps_df` written where the source calls deepcopy
deepcopy_alias(h, src) == [ref |-> src, heap |-> h]

\* copy.deepcopy (lines 152 and 173): a new object with the same content
deepcopy(h, src) == [ref |-> Len(h) + 1, heap |-> Append(h, h[src])]

\* df[col] = ... (lines 175, 177, 181): the column is added to the object
SetColumn(h, ref, col) == [h EXCEPT ![ref].columns = @ \cup {col}]

\* df.pop(col) (lines 188, 192): the column is removed from the object
PopColumn(h, ref, col) == [h EXCEPT ![ref].columns = @ \ {col}]

\* df[df[key] == val] (lines 185, 201): a new object holding the matching rows
FilterFrame(h, ref, val) ==
    LET rows == h[ref].rows
        kept == {i \in DOMAIN rows : rows[i] = val}
    IN  [ref |-> Len(h) + 1,
         heap |-> Append(h, [h[ref] EXCEPT !.rows = [i \in kept |-> rows[i]]])]

\* clean_df(df, ...) (lines 153, 190) is defined outside src/; it returns the
\* frame and the target values.  Modelled by its call sites: it gets one
\* frame, may remove any of the frame's original columns from that object,
\* and returns the same object.
clean_df(h, ref, removed) == [h EXCEPT ![ref].columns = @ \ removed]

FInit ==
    /\ fpc = "L152"
    /\ \E r1, r2 \in FrameRows :
         heap = <<[columns |-> FrameColumns, rows |-> r1],
                  [columns |-> FrameColumns, rows |-> r2]>>
    /\ icp_df = 0
    /\ icps_df = 0
    /\ icp_train_df = 0
    /\ frame_groups \in {g \in SeqsUpTo(Vals, Cardinality(Vals)) : NoDup(g)}
    /\ frame_classification \in BOOLEAN

FramesInit == AIdle /\ GIdle /\ IIdle /\ CIdle /\ FInit /\ PIdle /\ TIdle /\ UIdle /\ BIdle /\ MIdle

\* lines 152-155: icp_df = deepcopy(data); clean_df(icp_df, ...)
FrameCalibrateDefault ==
    /\ fpc = "L152"
    /\ \E removed \in SUBSET FrameColumns :
         LET c == deepcopy(heap, data)
         IN  /\ icp_df' = c.ref
             /\ heap' = clean_df(c.heap, c.ref, removed)
    /\ fpc' = "L173"
    /\ UNCHANGED <<avars, gvars, mvars, bvars, uvars, tvars, pvars, ivars, cvars, icps_df, icp_train_df, frame_groups,
                   frame_classification>>

\* lines 173-177: icps_df = deepcopy(data.cached_val_df), plus the predictions
FrameCopyCached ==
    /\ fpc = "L173"
    /\ LET c == deepcopy(heap, cached_val_df)
       IN  /\ icps_df' = c.ref
           /\ heap' = SetColumn(c.heap, c.ref, PredictedCol)
    /\ fpc' = "L179"
    /\ UNCHANGED <<avars, gvars, mvars, bvars, uvars, tvars, pvars, ivars, cvars, icp_df, icp_train_df, frame_groups,
                   frame_classification>>

\* lines 179-181: loop head (no combination: the loop body is skipped);
\* icp_df = icps_df; the self-aware column, or AttributeError when the
\* normalizer is None
FrameSelfawareColumn ==
    /\ fpc = "L179"
    /\ IF frame_groups = << >>
         THEN fpc' = "done" /\ UNCHANGED <<heap, icp_df>>
         ELSE /\ icp_df' = icps_df
              /\ \E normalizer_is_none \in BOOLEAN :
                   IF normalizer_is_none
                     THEN fpc' = "AttributeError" /\ UNCHANGED heap
                     ELSE /\ fpc' = "L183"
                          /\ heap' = SetColumn(heap, icps_df, SelfawareCol)
    /\ UNCHANGED <<avars, gvars, mvars, bvars, uvars, tvars, pvars, ivars, cvars, icps_df, icp_train_df, frame_groups,
                   frame_classification>>

\* lines 183-195: filter, pop the predictions, clean_df, pop the self-aware
\* column, calibrate on icp_df.values
FrameGroupCalibrate ==
    /\ fpc = "L183"
    /\ \E removed \in SUBSET FrameColumns :
         LET f == FilterFrame(heap, icp_df, frame_groups[1])
         IN  /\ icp_df' = f.ref
             /\ heap' = PopColumn(clean_df(PopColumn(f.heap, f.ref, PredictedCol),
                                           f.ref, removed),
                                  f.ref, SelfawareCol)
    /\ fpc' = "L197"
    /\ UNCHANGED <<avars, gvars, mvars, bvars, uvars, tvars, pvars, ivars, cvars, icps_df, icp_train_df, frame_groups,
                   frame_classification>>

\* lines 197-203: icp_train_df = data, filtered to the combination
FrameTrainStd ==
    /\ fpc = "L197"
    /\ IF ~frame_classification
         THEN LET f == FilterFrame(heap, data, frame_groups[1])
              IN  icp_train_df' = f.ref /\ heap' = f.heap
         ELSE UNCHANGED <<heap, icp_train_df>>
    /\ fpc' = "L205"
    /\ UNCHANGED <<avars, gvars, mvars, bvars, uvars, tvars, pvars, ivars, cvars, icp_df, icps_df, frame_groups,
                   frame_classification>>

\* lines 205-208: NameError (`params`), as in GroupConfRange
FrameConfRange ==
    /\ fpc = "L205"
    /\ fpc' = "NameError"
    /\ UNCHANGED <<avars, gvars, mvars, bvars, uvars, tvars, pvars, ivars, cvars, heap, icp_df, icps_df, icp_train_df,
                   frame_groups, frame_classification>>

FramesNext ==
    \/ FrameCalibrateDefault
    \/ FrameCopyCached
    \/ FrameSelfawareColumn
    \/ FrameGroupCalibrate
    \/ FrameTrainStd
    \/ FrameConfRange

SpecFrames == FramesInit /\ [][FramesNext]_vars

\* =====================================================================
\*        one ICP on its own (lightwood.analysis.nc, from the spec, 4.3-4.4)
\* =====================================================================

\* Values and predictions are 0..MaxValue; a probability is k/ProbSteps, a
\* significance k/SigSteps with 0 < k < SigSteps; there are two classes.
Classes == {1, 2}
Significances == 1..(SigSteps - 1)
Abs(x) == IF x >= 0 THEN x ELSE 0 - x

\* class probabilities of one row: they sum to 1
ClassProbs == {f \in [Classes -> 0..ProbSteps] : f[1] + f[2] = ProbSteps}

RegressionRows == [prediction : 0..MaxValue, truth : 0..MaxValue]
ClassificationRows == [probs : ClassProbs, truth : Classes]

\* 4.3, regression: |prediction - true_value| (no normalizer)
RegressionScore(row) == Abs(row.prediction - row.truth)

\* 4.3, classification: 1 - (probability assigned to the class), in steps
ClassScore(probs, c) == ProbSteps - probs[c]

NcScore(cls, row) ==
    IF cls = "IcpRegressor" THEN RegressionScore(row) ELSE ClassScore(row.probs, row.truth)

Scores(cls, rows) == [i \in DOMAIN rows |-> NcScore(cls, rows[i])]

\* ascending sort (insertion into a sorted sequence)
Insert(s, x) ==
    LET k == Cardinality({i \in DOMAIN s : s[i] <= x})
    IN  SubSeq(s, 1, k) \o <<x>> \o SubSeq(s, k + 1, Len(s))
RECURSIVE SortAsc(_)
SortAsc(s) == IF s = << >> THEN << >> ELSE Insert(SortAsc(Tail(s)), Head(s))

\* ceil(a / SigSteps) for a >= 0
CeilSteps(a) == (a + SigSteps - 1) \div SigSteps

Clamp(i, lo, hi) == IF i < lo THEN lo ELSE IF i > hi THEN hi ELSE i

\* the quantile index taken at the significance itself instead of 1 - significance
QuantileIndex_of_significance(k, n) == Clamp(CeilSteps(k * (n + 1)) - 1, 0, n - 1)

\* 4.4: ceil((1 - significance) * (n + 1)) - 1
RawQuantileIndex(k, n) == CeilSteps((SigSteps - k) * (n + 1)) - 1

\* 4.4: the index clamped to [0, n-1]
QuantileIndex(k, n) == Clamp(RawQuantileIndex(k, n), 0, n - 1)

Quantile(cal, k) == cal[QuantileIndex(k, Len(cal)) + 1]

\* 4.4, regression: [prediction - q, prediction + q], clipped to >= 0 under a
\* positive-domain constraint
PredictRegression(cal, prediction, k, positive_domain) ==
    LET q == Quantile(cal, k)
    IN  [kind |-> "interval",
         lower |-> IF positive_domain THEN Max(0, prediction - q) ELSE prediction - q,
         upper |-> prediction + q]

\* the class with the smallest nonconformity score (the first of them)
BestClass(probs) ==
    CHOOSE c \in Classes :
        /\ \A d \in Classes : ClassScore(probs, c) <= ClassScore(probs, d)
        /\ \A d \in Classes : ClassScore(probs, d) = ClassScore(probs, c) => c <= d

WithinQuantile(cal, probs, k) ==
    {c \in Classes : ClassScore(probs, c) <= Quantile(cal, k)}

\* the class set without the fallback
PredictClassification_no_fallback(cal, probs, k) ==
    [kind |-> "classes", classes |-> WithinQuantile(cal, probs, k)]

\* 4.4, classification: the classes within the quantile, else the best class
PredictClassification(cal, probs, k) ==
    [kind |-> "classes",
     classes |-> IF WithinQuantile(cal, probs, k) = {}
                   THEN {BestClass(probs)}
                   ELSE WithinQuantile(cal, probs, k)]

PInit ==
    /\ \E cls \in {"IcpRegressor", "IcpClassifier"} :
         icp = [IcpNew(cls, "none", 0) EXCEPT !.cal = << >>]
    /\ calibrate_calls = 0
    /\ last_calibration = << >>
    /\ last_op = "new"
    /\ query = [kind |-> "none"]
    /\ answer = [kind |-> "none"]

IcpInit == AIdle /\ GIdle /\ IIdle /\ CIdle /\ FIdle /\ PInit /\ TIdle /\ UIdle /\ BIdle /\ MIdle

\* fit(x, y): pass-through
IcpFitCall ==
    /\ icp' = IcpFit(icp)
    /\ last_op' = "fit"
    /\ query' = [kind |-> "none"]
    /\ answer' = [kind |-> "none"]
    /\ UNCHANGED <<avars, gvars, mvars, bvars, uvars, tvars, ivars, cvars, fvars, calibrate_calls, last_calibration>>

\* calibrate(feature_rows, true_values): scores, sorted ascending, replace
\* the calibration set
IcpCalibrateCall ==
    /\ calibrate_calls < MaxCalls
    /\ \E rows \in SeqsUpTo(IF icp.class = "IcpRegressor"
                              THEN RegressionRows ELSE ClassificationRows, MaxCal) :
         /\ last_calibration' = Scores(icp.class, rows)
         /\ icp' = IcpCalibrate(icp, SortAsc(Scores(icp.class, rows)))
    /\ calibrate_calls' = calibrate_calls + 1
    /\ last_op' = "calibrate"
    /\ query' = [kind |-> "none"]
    /\ answer' = [kind |-> "none"]
    /\ UNCHANGED <<avars, gvars, mvars, bvars, uvars, tvars, ivars, cvars, fvars>>

\* predict(feature_rows, significance) for one row; query and answer hold
\* the arguments and the result of the last call.  The spec defines the
\* quantile for a calibration set of n >= 1 scores only.
IcpPredictCall ==
    /\ icp.state = "CALIBRATED" => icp.cal # << >>
    /\ \E k \in Significances :
         IF icp.class = "IcpRegressor"
           THEN \E prediction \in 0..MaxValue, positive_domain \in BOOLEAN :
                  /\ query' = [kind |-> "regression", prediction |-> prediction,
                               significance |-> k, positive_domain |-> positive_domain]
                  /\ IF icp.state # "CALIBRATED"
                       THEN /\ last_op' = "NotCalibratedError"
                            /\ answer' = [kind |-> "none"]
                       ELSE /\ last_op' = "predict"
                            /\ answer' = PredictRegression(icp.cal, prediction, k,
                                                           positive_domain)
           ELSE \E probs \in ClassProbs :
                  /\ query' = [kind |-> "classification", probs |-> probs,
                               significance |-> k]
                  /\ IF icp.state # "CALIBRATED"
                       THEN /\ last_op' = "NotCalibratedError"
                            /\ answer' = [kind |-> "none"]
                       ELSE /\ last_op' = "predict"
                            /\ answer' = PredictClassification(icp.cal, probs, k)
    /\ UNCHANGED <<avars, gvars, mvars, bvars, uvars, tvars, ivars, cvars, fvars, icp, calibrate_calls,
                   last_calibration>>

IcpNext ==
    \/ IcpFitCall
    \/ IcpCalibrateCall
    \/ IcpPredictCall

SpecIcp == IcpInit /\ [][IcpNext]_vars

\* =====================================================================
\*          TimeseriesSettings.from_dict (api/types.py, lines 57-88)
\* =====================================================================

SettingKeys == {"order_by", "window", "group_by", "nr_predictions"}
SettingValues == {"v1", "v2"}

\* the dicts from_dict may be handed
SettingDicts == UNION {[keys -> SettingValues] : keys \in SUBSET SettingKeys}

\* lines 57-64: the dataclass with its defaults
TimeseriesSettingsNew(is_ts) ==
    [is_timeseries |-> is_ts, order_by |-> "None", window |-> "None",
     group_by |-> "None", use_previous_target |-> FALSE, nr_predictions |-> "None",
     historical_columns |-> "None"]

\* lines 69-72: the loop over ['order_by', 'window'] raises in its first
\* iteration, whatever obj holds (the body tests nothing)
MandatoryCheckRaises(obj) == <<"order_by", "window">> # << >>

MissingMandatory(mandatory_setting) == <<"Missing mandatory timeseries setting", mandatory_setting>>

TInit ==
    /\ tpc = "L68"
    /\ ts_obj \in SettingDicts
    /\ timeseries_settings = [is_timeseries |-> FALSE]
    /\ ts_err = "none"

TSInit == AIdle /\ GIdle /\ IIdle /\ CIdle /\ FIdle /\ PIdle /\ TInit /\ UIdle /\ BIdle /\ MIdle

\* lines 67-86: from_dict(obj).  Lines 74-82 (the settings built from obj)
\* come after the raise of line 72 and are reached by no input.
from_dict ==
    /\ tpc = "L68"
    /\ IF DOMAIN ts_obj # {}
         THEN /\ MandatoryCheckRaises(ts_obj)
              /\ ts_err' = MissingMandatory("order_by")
              /\ tpc' = "raised"
              /\ UNCHANGED timeseries_settings
         ELSE /\ timeseries_settings' = TimeseriesSettingsNew(FALSE)
              /\ tpc' = "returned"
              /\ UNCHANGED ts_err
    /\ UNCHANGED <<avars, gvars, mvars, bvars, uvars, ivars, cvars, fvars, pvars, ts_obj>>

TSNext ==
    \/ from_dict

SpecTS == TSInit /\ [][TSNext]_vars

\* =====================================================================
\*             LightwoodAutocast (helpers/torch.py, lines 27-64)
\* =====================================================================

\* torch's global autocast state is the flag autocast_enabled and the counter
\* nesting (0 outside every autocast block).  The device is a CUDA device,
\* with tensor cores (major > 6) or without.  instances holds the
\* LightwoodAutocast objects built so far, with_stack the objects whose
\* `with` block (or decorated call) is open, innermost last: a decorated
\* function enters the one object of its decorator again on every nested call.
UInit ==
    /\ autocast_enabled \in BOOLEAN
    /\ entry_enabled = autocast_enabled
    /\ nesting = 0
    /\ tensor_cores \in BOOLEAN
    /\ instances = << >>
    /\ with_stack = << >>

ACInit == AIdle /\ GIdle /\ IIdle /\ CIdle /\ FIdle /\ PIdle /\ TIdle /\ UInit /\ BIdle /\ MIdle

\* lines 32-38: __init__(enabled), CUDA being available
AutocastNew ==
    /\ Len(instances) < MaxInstances
    /\ \E enabled \in BOOLEAN :
         instances' = Append(instances, [_enabled |-> enabled, prev |-> enabled])
    /\ UNCHANGED <<avars, gvars, mvars, bvars, ivars, cvars, fvars, pvars, tvars, autocast_enabled,
                   nesting, entry_enabled, tensor_cores, with_stack>>

\* lines 40-49: __enter__ (no further block is opened once the counter has
\* sunk MaxUnderflow below zero)
AutocastEnter ==
    /\ Len(with_stack) < MaxDepth
    /\ nesting > 0 - MaxUnderflow
    /\ \E i \in DOMAIN instances :
         /\ with_stack' = Append(with_stack, i)
         /\ IF tensor_cores
              THEN /\ instances' = [instances EXCEPT ![i].prev = autocast_enabled]
                   /\ autocast_enabled' = instances[i]._enabled
                   /\ nesting' = nesting + 1
              ELSE UNCHANGED <<instances, autocast_enabled, nesting>>
    /\ UNCHANGED <<avars, gvars, mvars, bvars, ivars, cvars, fvars, pvars, tvars, entry_enabled,
                   tensor_cores>>

\* lines 51-56: __exit__ of the innermost open block
AutocastExit ==
    /\ with_stack # << >>
    /\ LET i == with_stack[Len(with_stack)] IN
         /\ nesting' = nesting - 1
         /\ autocast_enabled' = instances[i].prev
    /\ with_stack' = SubSeq(with_stack, 1, Len(with_stack) - 1)
    /\ UNCHANGED <<avars, gvars, mvars, bvars, ivars, cvars, fvars, pvars, tvars, entry_enabled,
                   tensor_cores, instances>>

ACNext ==
    \/ AutocastNew
    \/ AutocastEnter
    \/ AutocastExit

SpecAC == ACInit /\ [][ACNext]_vars

\* =====================================================================
\*                 BestOf (ensemble/best_of.py, lines 10-31)
\* =====================================================================

\* line 16: best_score = -pow(2, 32).  Scores are counted in units of 2^16
\* (TLC's integers have 32 bits): -pow(2, 32) is -(2^16) units.
InitialBestScore == 0 - (2 ^ 16)

\* A mean accuracy score (line 24) is a float: a number, or nan (the mean of
\* no scores, or of scores holding a nan).  Numbers are r2-like scores, which
\* have no lower limit; the ones that matter are those around the initial
\* best score and two ordinary ones.
Num(v) == [nan |-> FALSE, v |-> v]
NaN == [nan |-> TRUE, v |-> 0]
MeanScores == {Num(InitialBestScore - 1), Num(InitialBestScore), Num(0), Num(1), NaN}

\* float comparison a > b: False when either side is nan
Greater(a, b) == ~a.nan /\ ~b.nan /\ a.v > b.v

\* line 26: if avg_score > best_score
TakesModel(i, avg_score, best) == Greater(avg_score, best)

BInit ==
    /\ bpc = "L18"
    /\ model_scores \in SeqsUpTo(MeanScores, MaxModels) \ {<< >>}
    /\ best_score = Num(InitialBestScore)
    /\ best_index = [bound |-> FALSE, v |-> 0]
    /\ idx = 1
    /\ returned = [model |-> 0]

BOInit == AIdle /\ GIdle /\ IIdle /\ CIdle /\ FIdle /\ PIdle /\ TIdle /\ UIdle /\ BInit /\ MIdle

\* lines 18-28: one iteration of the loop over the models (idx counts from 1
\* here; the source's index is idx - 1)
BestOfEvaluate ==
    /\ bpc = "L18"
    /\ idx <= Len(model_scores)
    /\ IF TakesModel(idx, model_scores[idx], best_score)
         THEN /\ best_score' = model_scores[idx]
              /\ best_index' = [bound |-> TRUE, v |-> idx]
         ELSE UNCHANGED <<best_score, best_index>>
    /\ idx' = idx + 1
    /\ UNCHANGED <<avars, gvars, mvars, ivars, cvars, fvars, pvars, tvars, uvars, bpc,
                   model_scores, returned>>

\* line 18, the loop is over: __init__ returns
BestOfConstructed ==
    /\ bpc = "L18"
    /\ idx > Len(model_scores)
    /\ bpc' = "constructed"
    /\ UNCHANGED <<avars, gvars, mvars, ivars, cvars, fvars, pvars, tvars, uvars, model_scores,
                   best_score, best_index, idx, returned>>

\* lines 30-31: __call__; self.best_index is an attribute only if line 28 ran
\* (the annotation of line 11 creates none)
BestOfCall ==
    /\ bpc = "constructed"
    /\ IF best_index.bound
         THEN bpc' = "called" /\ returned' = [model |-> best_index.v]
         ELSE bpc' = "AttributeError" /\ UNCHANGED returned
    /\ UNCHANGED <<avars, gvars, mvars, ivars, cvars, fvars, pvars, tvars, uvars, model_scores,
                   best_score, best_index, idx>>

BONext ==
    \/ BestOfEvaluate
    \/ BestOfConstructed
    \/ BestOfCall

SpecBO == BOInit /\ [][BONext]_vars

\* =====================================================================
\*              Neural._max_fit (model/neural.py, lines 112-144)
\* =====================================================================

\* An error is a float: Num(0) is an error below 0.0001, Num(1).. the errors
\* from 0.0001 upwards, and NaN stands for nan and inf alike (line 125 treats
\* them alike).  Time is counted in ticks; an epoch takes 0 or 1 tick.
DevErrors == {Num(v) : v \in 0..MaxError} \cup {NaN}
TrainErrors == {Num(0), Num(1), NaN}

\* line 115: best_dev_error = pow(2, 32), above every error of the model
\* (2^32 itself is beyond TLC's integers)
InitialBestDevError == 2 ^ 16

\* line 125: np.isnan(x) or np.isinf(x)
NotFinite(x) == x.nan

\* lines 133-134: the mean of the last differences,
\* running_errors[-i - 1] - running_errors[-i] for i in 1..4, times 4
DeltaSum(errors) ==
    LET n == Len(errors)
        d(i) == errors[n - i].v - errors[n - i + 1].v
    IN  d(1) + d(2) + d(3) + d(4)

\* lines 132-140: does the epoch end with a break?
BreaksAfterEpoch(errors, t_error, now, budget) ==
    IF Len(errors) >= 5
      THEN DeltaSum(errors) <= 0
      ELSE IF now > budget
        THEN TRUE
        ELSE errors[Len(errors)].v < 1 \/ t_error.v < 1

MInit ==
    /\ mpc = "L121"
    /\ stop_after \in 0..MaxStopAfter
    /\ return_model_after \in 1..MaxEpochs
    /\ epoch = 1
    /\ elapsed = 0
    /\ train_error = Num(0)
    /\ running_errors = << >>
    /\ best_dev_error = InitialBestDevError
    /\ epochs_to_best = 0

MFInit ==
    AIdle /\ GIdle /\ IIdle /\ CIdle /\ FIdle /\ PIdle /\ TIdle /\ UIdle /\ BIdle /\ MInit

\* lines 121-140: one epoch; elapsed is time.time() - started when the epoch's
\* checks are made
MaxFitEpoch ==
    /\ mpc = "L121"
    /\ epoch <= return_model_after
    /\ \E t_error \in TrainErrors, dev_error \in DevErrors, ticks \in 0..1 :
         LET errors == Append(running_errors, dev_error)
             now == elapsed + ticks
         IN  /\ train_error' = t_error
             /\ running_errors' = errors
             /\ elapsed' = now
             /\ IF NotFinite(t_error) \/ NotFinite(dev_error)
                  THEN /\ mpc' = "L142"
                       /\ UNCHANGED <<best_dev_error, epochs_to_best>>
                  ELSE /\ IF best_dev_error > dev_error.v
                            THEN /\ best_dev_error' = dev_error.v
                                 /\ epochs_to_best' = epoch
                            ELSE UNCHANGED <<best_dev_error, epochs_to_best>>
                       /\ mpc' = IF BreaksAfterEpoch(errors, t_error, now, stop_after)
                                   THEN "L142" ELSE "L121"
    /\ epoch' = epoch + 1
    /\ UNCHANGED <<avars, gvars, ivars, cvars, fvars, pvars, tvars, uvars, bvars,
                   stop_after, return_model_after>>

\* lines 142-144: after a break or after the last epoch
MaxFitReturn ==
    /\ mpc = "L142" \/ (mpc = "L121" /\ epoch > return_model_after)
    /\ mpc' = "returned"
    /\ UNCHANGED <<avars, gvars, ivars, cvars, fvars, pvars, tvars, uvars, bvars,
                   stop_after, return_model_after, epoch, elapsed, train_error,
                   running_errors, best_dev_error, epochs_to_best>>

MFNext ==
    \/ MaxFitEpoch
    \/ MaxFitReturn

SpecMF == MFInit /\ [][MFNext]_vars

\* =====================================================================
\*                              claims
\* =====================================================================

Ended == pc \in {"returned", "raised"}
Regression == data_type \in {"integer", "float"}
\* the group enumeration of lines 138-144 has been executed
Enumerated == mdb_group_keys # << >>
\* the loop of lines 146-149 has been left
GroupIcpsBuilt == Enumerated /\ pc # "L146"
\* the validation rows of the i-th enumerated combination
GroupRows(i) == FilterRows(val_rows, ts_cfg.group_by, mdb_groups[i])

\* ---- C1 ------------------------------------------------------------
\* C1 (as stated): once line 57 has run, the predictor has been invoked
\* exactly once, whatever the configuration; no later step invokes it.
C1_Original == pc # "L52" => Len(predictor_calls) = 1

\* C1 (amended): the predictor is invoked on the full validation set exactly
\* once, as the first call; with column importance disabled it is never
\* invoked again; with column importance enabled every further invocation is
\* an ablation call predictor('validate', ignore_columns=[col]) for an input
\* column that is ignorable, each such column at most once, and exactly once
\* by the time the run returns.
C1_OneFullCallPlusAblations ==
    LET n == Len(predictor_calls)
        ignorable == IF ts_cfg.is_timeseries THEN {"a", "b"} ELSE {"a", "b", "t"}
    IN  /\ pc # "L52" => (n >= 1 /\ predictor_calls[1] = <<"encoded_data">>)
        /\ pc = "L52" => n = 0
        /\ \A i \in 2..n : /\ predictor_calls[i][1] = "validate"
                           /\ predictor_calls[i][2] \in ignorable
        /\ NoDup(predictor_calls)
        /\ disable_column_importance => n <= 1
        /\ (pc = "returned" /\ ~disable_column_importance)
              => {predictor_calls[i][2] : i \in 2..n} = ignorable

\* a run with column importance enabled has returned after its ablation calls
C1_Witness == pc = "returned" /\ Len(predictor_calls) = 4

\* ---- C2 ------------------------------------------------------------
\* C2: every ICP handed to set_conf_range is calibrated: the default one when
\* line 158 is reached and the group's one when line 206 is reached, every
\* query made so far was answered by a CALIBRATED ICP, and NotCalibratedError
\* is never raised.
C2_CalibratedBeforeQueried ==
    /\ \A i \in DOMAIN conf_queries : conf_queries[i].state = "CALIBRATED"
    /\ error # "NotCalibratedError"
    /\ pc = "L157" => icps[DefaultKey].state = "CALIBRATED"
    /\ pc = "L205" => icps[FrozenKey(mdb_groups[gi])].state = "CALIBRATED"

\* the default ICP has been queried and a group ICP, one of several, is about
\* to be handed to set_conf_range
C2_Witness == pc = "L205" /\ Len(mdb_groups) >= 2 /\ Len(conf_queries) = 1

\* ---- C3 ------------------------------------------------------------
\* C3 (as stated): once the group ICPs are built, any two distinct enumerated
\* combinations are stored under distinct keys with distinct ICP objects, and
\* a calibrated group ICP holds the rows of its own combination only.
C3_Original ==
    GroupIcpsBuilt =>
        /\ \A i, j \in DOMAIN mdb_groups :
              i # j => \E k1, k2 \in DOMAIN icps \ {DefaultKey} :
                          k1 # k2 /\ icps[k1].obj = i /\ icps[k2].obj = j
        /\ \A k \in DOMAIN icps \ {DefaultKey} :
              icps[k].state = "CALIBRATED" => icps[k].cal = GroupRows(icps[k].obj)

\* ---- C5 ------------------------------------------------------------
\* C5: the enumerated combinations are exactly the tuples that take, in each
\* group-by column, a value observed in that column, each listed once; with a
\* single group-by column whose observed values are x and y they are the two
\* one-column groups.
C5_EnumerationIsCartesianProduct ==
    Enumerated =>
        LET k == Len(ts_cfg.group_by) IN
        /\ NoDup(mdb_groups)
        /\ Range(mdb_groups) =
             {t \in Tuples(k) :
                \A c \in 1..k : \E i \in DOMAIN train_group_info :
                    train_group_info[i][c] = t[c]}
        /\ (k = 1 /\ {train_group_info[i][1] : i \in DOMAIN train_group_info} = {"x", "y"})
              => (Len(mdb_groups) = 2 /\ Range(mdb_groups) = {<<"x">>, <<"y">>})

\* a combination that occurs in no row has been enumerated
C5_Witness ==
    /\ Enumerated
    /\ \E g \in Range(mdb_groups) : g \notin Range(train_group_info)

\* ---- C6 ------------------------------------------------------------
\* the key of the ICP whose bounds the claim gives to validation row r
C6_ExpectedKey(r) ==
    IF Grouped /\ \E i \in DOMAIN mdb_groups : r \in GroupRows(i)
      THEN FrozenKey(mdb_groups[CHOOSE i \in DOMAIN mdb_groups : r \in GroupRows(i)])
      ELSE DefaultKey

\* C6 (as stated): a run for a regression target finishes, and then each row's
\* bounds are those of the ICP of the row's group, or of the default ICP for a
\* row of no enumerated group.  (Runs ended by the attribute error of line 181
\* are left aside: it depends on a class that is not in src/.)
C6_Original ==
    (Regression /\ Ended /\ error # "AttributeError") =>
        /\ pc = "returned"
        /\ result_df.defined
        /\ \A r \in AllRows : /\ result_df.rows[r].written
                              /\ result_df.rows[r].by = C6_ExpectedKey(r)

\* ---- C7 ------------------------------------------------------------
\* C7 (as stated, for runs without grouping): for every target type the run
\* returns a predictions frame with exactly the validation rows' index,
\* holding the predictions and the confidence columns.
C7_Original ==
    (Ended /\ ~Grouped) =>
        /\ pc = "returned"
        /\ full_predictions.defined
        /\ full_predictions.index = AllRows
        /\ "predictions" \in full_predictions.columns

\* ---- C8 ------------------------------------------------------------
\* C8 (as stated): a run in which some enumerated combination matches no
\* validation row does not abort: when it ends, it has returned.  (Runs ended
\* by the attribute error of line 181 are left aside, as for C6.)
C8_Original ==
    (/\ Ended /\ Regression /\ Enumerated /\ error # "AttributeError"
     /\ \E i \in DOMAIN mdb_groups : GroupRows(i) = {})
        => pc = "returned"

\* ---- C9 ------------------------------------------------------------
\* C9 (as stated): for a regression target the returned analysis record has a
\* training-standard-deviation entry for every key under which an ICP is
\* stored, '__default' included, with grouping and without.
C9_Original ==
    (pc = "returned" /\ Regression) =>
        /\ train_std_dev.defined
        /\ \A k \in DOMAIN icps : k \in DOMAIN train_std_dev.entries

\* ---- C10 -----------------------------------------------------------
\* C10 (as stated): integer, float and array targets get the regression
\* machinery, and the classification machinery is chosen for categorical
\* targets only.
C10_Original ==
    icp_class # "unset" =>
        /\ data_type \in {"integer", "float", "array"} => icp_class = "IcpRegressor"
        /\ icp_class = "IcpClassifier" => data_type = "categorical"

\* ---- C11 -----------------------------------------------------------
\* C11 (as stated, for the targets treated as numerical): in a multi-step
\* time-series run every calibrated ICP, default or per-group, was calibrated
\* with a prediction cache holding the first forecast step of each row.
C11_Original ==
    (is_multi_ts /\ data_type \in {"integer", "float", "array"}) =>
        \A k \in DOMAIN icps :
            icps[k].state = "CALIBRATED" => icps[k].prediction_cache = "first_step"

\* ---- C4 (under SpecGN) ---------------------------------------------
\* C4 (as stated): get_group_matches, called by
\* generate_target_group_normalizers for a combination, returns exactly the
\* rows in which every group-by column has the combination's value for it.
C4_Original ==
    last_match.called =>
        last_match.idxs =
            {i \in DOMAIN group_info :
                \A c \in DOMAIN group_keys : group_info[i][c] = last_match.combination[c]}

\* ---- C12 (under SpecCI) --------------------------------------------
\* C12 (as stated): every column-importance score written lies between 0 and
\* 10, and the assertion of line 259 never fails.
C12_Original ==
    /\ ipc # "AssertionError"
    /\ ipc = "written" =>
          (0 <= column_importance /\ column_importance <= ImportanceScale * AccDenominator)

\* ---- C13 (under SpecCat) -------------------------------------------
\* the encoding of the sentinel itself
C13_SentinelCode ==
    IF encoder_class = "one_hot"
      THEN [c \in categories_ |-> IF c = unk THEN 1 ELSE 0]
      ELSE <<Cardinality({c \in categories_ : c < unk})>>

\* C13 (as stated): encode of a value that prepare did not see never raises
\* and yields the encoding of the unknown sentinel, which is one of the
\* fitted categories.
C13_Original ==
    (cpc \in {"encoded", "ValueError"} /\ encode_y \notin Range(prepare_x)) =>
        /\ cpc = "encoded"
        /\ unk \in categories_
        /\ encoded = C13_SentinelCode

\* ---- C14 (under SpecFrames) -----------------------------------------
\* C14: no step of model_analyzer changes the validation frame or its cached
\* validation frame: both objects keep the columns, rows and values they had
\* on entry.
C14_ValidationDataReadOnly ==
    [][heap'[data] = heap[data] /\ heap'[cached_val_df] = heap[cached_val_df]]_vars

\* a run that added both columns to the copy, filtered rows away and popped
\* columns from the filtered frame
C14_Witness ==
    /\ fpc = "L205"
    /\ {PredictedCol, SelfawareCol} \subseteq heap[icps_df].columns
    /\ icp_df \notin {data, cached_val_df, icps_df}
    /\ DOMAIN heap[icp_df].rows # DOMAIN heap[cached_val_df].rows
    /\ Target \notin heap[icp_df].columns
    /\ Target \notin heap[3].columns

\* ---- C15 (under SpecIcp) --------------------------------------------
\* C15: an ICP is CALIBRATED exactly when calibrate has been called on it;
\* a fit call changes neither its state nor its calibration set; and its
\* calibration set is the ascending sort of the scores of the most recent
\* calibrate call alone (stated of the ICP after every call).
C15_IcpLifecycle ==
    [][/\ icp'.state = "CALIBRATED" <=> calibrate_calls' > 0
       /\ last_op' = "fit" => icp' = icp
       /\ icp'.cal = SortAsc(last_calibration')]_vars

\* a second calibrate call whose scores had to be reordered, then a fit
C15_Witness ==
    /\ calibrate_calls = 2
    /\ last_op = "fit"
    /\ Len(last_calibration) = 2
    /\ last_calibration[1] > last_calibration[2]
    /\ icp.cal = <<last_calibration[2], last_calibration[1]>>

\* ---- C16 (under SpecIcp) --------------------------------------------
Width(interval) == interval.upper - interval.lower

C16_Requery(k) ==
    PredictRegression(icp.cal, query.prediction, k, query.positive_domain)

\* C16: for the interval a calibrated regression ICP has just returned, no
\* larger significance gives a wider interval for the same row and no smaller
\* one a narrower interval, and the quantile index lies within [0, n-1].
C16_LargerSignificanceNeverWider ==
    (last_op = "predict" /\ query.kind = "regression") =>
        /\ QuantileIndex(query.significance, Len(icp.cal)) \in 0..(Len(icp.cal) - 1)
        /\ \A k \in Significances :
             /\ k > query.significance => Width(C16_Requery(k)) <= Width(answer)
             /\ k < query.significance => Width(C16_Requery(k)) >= Width(answer)

\* an interval from a clamped index, strictly wider than the one a larger
\* significance gives
C16_Witness ==
    /\ last_op = "predict"
    /\ query.kind = "regression"
    /\ RawQuantileIndex(query.significance, Len(icp.cal)) > Len(icp.cal) - 1
    /\ \E k \in Significances :
         k > query.significance /\ Width(C16_Requery(k)) < Width(answer)

\* ---- C17 (under SpecIcp) --------------------------------------------
\* C17: the class set a calibrated classification ICP returns is never empty,
\* and when no class is within the calibration quantile it is one class, a
\* best-scoring one.
C17_ClassSetNonEmpty ==
    (last_op = "predict" /\ query.kind = "classification") =>
        /\ answer.classes # {}
        /\ WithinQuantile(icp.cal, query.probs, query.significance) = {} =>
             /\ Cardinality(answer.classes) = 1
             /\ \A c \in answer.classes, d \in Classes :
                  ClassScore(query.probs, c) <= ClassScore(query.probs, d)

\* a query with no class within the quantile, answered with one class
C17_Witness ==
    /\ last_op = "predict"
    /\ query.kind = "classification"
    /\ WithinQuantile(icp.cal, query.probs, query.significance) = {}
    /\ Cardinality(answer.classes) = 1

\* ---- C18 (under SpecGN) ---------------------------------------------
\* the rows that belong to a combination: every group-by column equals the
\* combination's value
C18_RowsOf(combination) ==
    {i \in DOMAIN group_info :
        \A c \in DOMAIN group_keys : group_info[i][c] = combination[c]}

\* C18 (as stated): on return the keys of target_normalizers are the entries
\* of group_combinations, '__default' is fitted on all the data, and for a
\* numeric target a combination has a normalizer exactly when some row
\* belongs to it, fitted once and on that combination's rows.
C18_Original ==
    gpc = "done" =>
        /\ DOMAIN normalizers = Range(group_combinations)
        /\ DefaultKey \in DOMAIN normalizers
        /\ normalizers[DefaultKey].fitted_on = DOMAIN group_info
        /\ original_type \notin {"categorical", "binary"} =>
             /\ NoDup(group_combinations)
             /\ \A n \in DOMAIN all_group_combinations :
                  LET combination == all_group_combinations[n] IN
                    combination # << >> =>
                      /\ FrozenKey(combination) \in DOMAIN normalizers
                           <=> C18_RowsOf(combination) # {}
                      /\ FrozenKey(combination) \in DOMAIN normalizers =>
                           normalizers[FrozenKey(combination)].fitted_on
                             = C18_RowsOf(combination)

\* ---- C19 (under SpecTS) ---------------------------------------------
C19_HasMandatory == {"order_by", "window"} \subseteq DOMAIN ts_obj

\* C19 (as stated): from_dict raises 'Missing mandatory timeseries setting'
\* exactly for a non-empty input lacking 'order_by' or 'window'; an empty
\* input gives is_timeseries False; an input with both gives is_timeseries
\* True and every supplied key set to its value.
C19_Original ==
    tpc \in {"raised", "returned"} =>
        /\ tpc = "raised" <=> (DOMAIN ts_obj # {} /\ ~C19_HasMandatory)
        /\ DOMAIN ts_obj = {} =>
             (tpc = "returned" /\ ~timeseries_settings.is_timeseries)
        /\ C19_HasMandatory =>
             /\ tpc = "returned"
             /\ timeseries_settings.is_timeseries
             /\ \A setting \in DOMAIN ts_obj :
                  timeseries_settings[setting] = ts_obj[setting]

\* ---- C20 (under SpecAC) ---------------------------------------------
\* C20 (as stated): with properly nested uses, the nesting counter is never
\* below its initial value, and outside every block the counter and the
\* global autocast flag have the values they had before the first enter.
C20_Original ==
    /\ nesting >= 0
    /\ with_stack = << >> => (nesting = 0 /\ autocast_enabled = entry_enabled)

\* ---- C21 (under SpecBO) ---------------------------------------------
\* C21 (as stated): once the ensemble is constructed best_index is defined
\* and is the lowest index among the models of maximal mean score; a call
\* returns that model's predictions and does not fail.
C21_Original ==
    bpc \in {"constructed", "called", "AttributeError"} =>
        /\ best_index.bound
        /\ \A j \in DOMAIN model_scores :
             ~Greater(model_scores[j], model_scores[best_index.v])
        /\ \A j \in 1..(best_index.v - 1) :
             model_scores[j].nan \/ Greater(model_scores[best_index.v], model_scores[j])
        /\ bpc # "AttributeError"
        /\ bpc = "called" => returned.model = best_index.v

\* ---- C22 (under SpecMF) ---------------------------------------------
\* C22 (as stated): once the time elapsed at the end of an epoch exceeds
\* stop_after no further epoch is run, and never more than
\* return_model_after epochs are run.
C22_Original ==
    [][/\ (Len(running_errors) >= 1 /\ elapsed > stop_after) =>
             Len(running_errors') = Len(running_errors)
       /\ Len(running_errors') <= return_model_after]_vars

\* ---- C23 (under Spec) -----------------------------------------------
\* the keys whose bounds set_conf_range has computed
C23_Queried(queries) == {queries[i].key : i \in DOMAIN queries}

\* C23: analysis['icp']['__mdb_active'] is False at the start and never goes
\* back to False; after every step, if it is True then '__default' and every
\* group ICP exist, are calibrated and have had their bounds computed; and a
\* run that ends without ICPs ends with the flag False.
C23_ActiveOnlyWhenCalibrated ==
    [][/\ pc = "L52" => ~mdb_active
       /\ mdb_active => mdb_active'
       /\ mdb_active' =>
            /\ DefaultKey \in DOMAIN icps'
            /\ \A k \in DOMAIN icps' :
                 icps'[k].state = "CALIBRATED" /\ k \in C23_Queried(conf_queries')
       /\ (pc' \in {"returned", "raised"} /\ icps' = EmptyMap) => ~mdb_active']_vars

\* a run that returned with the flag set, the default ICP calibrated and queried
C23_Witness ==
    /\ pc = "returned"
    /\ mdb_active
    /\ icps[DefaultKey].state = "CALIBRATED"
    /\ DefaultKey \in C23_Queried(conf_queries)

====
